---- MODULE Spec2Model ----
(***************************************************************************)
(* Plant Growth Visualization Service (src/main.py).                       *)
(*                                                                         *)
(* One endpoint, GET /growth-data/{lot_id}: build an engine, open a        *)
(* connection, run one SELECT ordered by log_date, close the connection,   *)
(* answer 404 on an empty result, otherwise convert millimetres to         *)
(* centimetres, render a line chart and answer 200.  Every exception is    *)
(* turned into an HTTP 500 by the two except clauses of the handler.       *)
(*                                                                         *)
(* Each request is a small sequential process; pc[r] is its position in    *)
(* get_growth_chart.  Text (messages, details) is a sequence of non-empty  *)
(* fragments, so the empty string is <<>> and concatenation is \o.         *)
(***************************************************************************)
EXTENDS Integers, Sequences, FiniteSets, TLC

\* ------------------------------------------------------------------ bounds
\* Number of request slots the transport layer serves.
NumRequests == 2
\* Largest number of rows stored in growth_logs.
MaxRows == 2

Requests == 1..NumRequests

\* Sample input values: lot identifiers, calendar days, heights in mm.
Lots == {7, 8}
Dates == {1, 8}
Heights == {100, 305}

\* Messages the libraries attach to the exceptions they raise; str(e) of an
\* exception built without arguments is the empty string.
ErrorTexts == {<<>>, <<"underlying message">>}

VARIABLES
    growth_logs,   \* the table: a sequence of rows in insertion order
    pc,            \* pc[r]: position of request r in get_growth_chart
    lot,           \* lot[r]: the lot_id path parameter of request r
    connections,   \* requests whose connection is checked out (open)
    df,            \* df[r]: the DataFrame of request r
    exc,           \* exc[r]: the exception in flight in request r
    response,      \* response[r]: what request r answered
    failure,       \* failure[r]: which call failed, and its own message
    attempts       \* attempts[r]: calls of engine.connect() / read_sql_query

vars == <<growth_logs, pc, lot, connections, df, exc, response, failure, attempts>>

\* --------------------------------------------------------------- the table
GrowthRecord == [lot_id : Lots, log_date : Dates, height_mm : Heights]

RECURSIVE TablesOfLen(_)
TablesOfLen(n) ==
    IF n = 0 THEN {<<>>}
    ELSE {Append(t, row) : t \in TablesOfLen(n - 1), row \in GrowthRecord}

AllTables == UNION {TablesOfLen(n) : n \in 0..MaxRows}

\* A few tables for the runs with overlapping requests: empty; two lots
\* inserted out of date order; two rows of one lot on the same day.
SampleTables ==
    { <<>>,
      << [lot_id |-> 7, log_date |-> 8, height_mm |-> 305],
         [lot_id |-> 8, log_date |-> 1, height_mm |-> 100],
         [lot_id |-> 7, log_date |-> 1, height_mm |-> 100] >>,
      << [lot_id |-> 8, log_date |-> 1, height_mm |-> 305],
         [lot_id |-> 8, log_date |-> 1, height_mm |-> 100] >> }

\* ---------------------------------------------------------------- the query
\* Faulty variant: the WHERE clause left out.
WhereAnyLot(table, lot_id) == 1..Len(table)
\* WHERE lot_id = :lot_id  -- the positions of the matching rows.
WhereLotId(table, lot_id) == {i \in 1..Len(table) : table[i].lot_id = lot_id}

\* Faulty variant: the ORDER BY clause left out.
AnyOrder(table, order) == TRUE
\* ORDER BY log_date -- is the sequence of positions in ascending date order?
\* Rows with equal dates may come in either order.
OrderByLogDate(table, order) ==
    \A i, j \in 1..Len(order) :
        i < j => table[order[i]].log_date <= table[order[j]].log_date

\* SELECT log_date, height_mm -- the two columns of one row.
SelectColumns(row) == [log_date |-> row.log_date, height_mm |-> row.height_mm]

\* Every result the database may return for the query of lines 27-32.
ReadSqlQuery(table, lot_id) ==
    LET match == WhereLotId(table, lot_id)
        n == Cardinality(match)
        orders == {o \in [1..n -> match] :
                     /\ \A i, j \in 1..n : i # j => o[i] # o[j]
                     /\ OrderByLogDate(table, o)}
    IN {[k \in 1..n |-> SelectColumns(table[o[k]])] : o \in orders}

\* ------------------------------------------------------------- the reshaping
\* Faulty variant: the emptiness test never fires.
NeverEmpty(frame) == FALSE
\* df.empty
IsEmpty(frame) == Len(frame) = 0

\* Faulty variant: height_mm // 10, the tenths are lost.
FloorDivTen(mm) == [whole |-> mm \div 10, tenths |-> 0]
\* height_mm / 10: true division, kept as whole centimetres and tenths.
MmToCm(mm) == [whole |-> mm \div 10, tenths |-> mm % 10]

\* pd.to_datetime(date): midnight of that day, in seconds.
ToDatetime(date) == date * 86400

\* Lines 42-43: add height_cm, parse log_date.
Reshaped(frame) ==
    [k \in 1..Len(frame) |->
        [log_date |-> ToDatetime(frame[k].log_date),
         height_mm |-> frame[k].height_mm,
         height_cm |-> MmToCm(frame[k].height_mm)]]

\* px.line(df, x='log_date', y='height_cm'): one point per row, in row order.
Line(frame) ==
    [k \in 1..Len(frame) |-> [x |-> frame[k].log_date, y |-> frame[k].height_cm]]

\* ---------------------------------------------------- exceptions, responses
NoExc == [cls |-> "none", text |-> <<>>]
NoFailure == [at |-> "none", msg |-> <<>>]
NoResponse == [status |-> 0, body |-> "", detail |-> <<>>, chart |-> <<>>]
NoAttempts == [connect |-> 0, query |-> 0]

NoDataMessage == "<h2>No data found for this lot ID</h2>"
ChartFragment == "<div>plotly chart</div>"

\* str(e): an HTTPException prints as "<status_code>: <detail>" (Starlette's
\* __str__), any other exception as its message.
Str(e) == IF e.cls = "HTTPException" THEN <<"500: ">> \o e.text ELSE e.text

\* Faulty variant: the SQLAlchemyError clause missing.
DetailRaw(e) == Str(e)
\* The detail chosen by the two except clauses of get_growth_chart, lines 82-85.
DetailFor(e) ==
    IF e.cls = "SQLAlchemyError"
    THEN <<"Database error: ">> \o Str(e)
    ELSE Str(e)

\* Faulty variant: the connection is left open.
KeepOpen(conns, r) == conns
\* The exit of the with block, line 35: the connection is closed.
Release(conns, r) == conns \ {r}

\* -------------------------------------------------------------------- Init
InitRequests ==
    /\ pc = [r \in Requests |-> "idle"]
    /\ lot = [r \in Requests |-> 0]
    /\ connections = {}
    /\ df = [r \in Requests |-> <<>>]
    /\ exc = [r \in Requests |-> NoExc]
    /\ response = [r \in Requests |-> NoResponse]
    /\ failure = [r \in Requests |-> NoFailure]
    /\ attempts = [r \in Requests |-> NoAttempts]

Init ==
    /\ growth_logs \in SampleTables
    /\ InitRequests

InitSerial ==
    /\ growth_logs \in AllTables
    /\ InitRequests

\* ----------------------------------------------------------------- actions
\* Raise an exception in request r: control leaves the try body.
Raise(r, at, cls, text, msg) ==
    /\ pc' = [pc EXCEPT ![r] = "raised"]
    /\ exc' = [exc EXCEPT ![r] = [cls |-> cls, text |-> text]]
    /\ failure' = [failure EXCEPT ![r] = [at |-> at, msg |-> msg]]

\* The routing layer calls get_growth_chart(lot_id).
Receive(r, lot_id) ==
    /\ pc[r] = "idle"
    /\ pc' = [pc EXCEPT ![r] = "engine"]
    /\ lot' = [lot EXCEPT ![r] = lot_id]
    /\ UNCHANGED <<growth_logs, connections, df, exc, response, failure, attempts>>

\* The same, when the event loop runs one handler at a time: the handler is
\* an async def without an await, so under one uvicorn process it runs from
\* its first line to its response before another request is taken.
ReceiveSerial(r, lot_id) ==
    /\ \A q \in Requests : pc[q] = "idle"
    /\ Receive(r, lot_id)

\* get_db_engine returns an engine (lines 15-18, 25).
GetDbEngineOk(r) ==
    /\ pc[r] = "engine"
    /\ pc' = [pc EXCEPT ![r] = "connect"]
    /\ UNCHANGED <<growth_logs, lot, connections, df, exc, response, failure, attempts>>

\* create_engine raises; get_db_engine raises HTTPException(500,
\* "Database connection failed: ...") (lines 19-20).
GetDbEngineRaise(r, msg) ==
    /\ pc[r] = "engine"
    /\ Raise(r, "engine", "HTTPException", <<"Database connection failed: ">> \o msg, msg)
    /\ UNCHANGED <<growth_logs, lot, connections, df, response, attempts>>

\* engine.connect() opens the connection (line 35).
ConnectOk(r) ==
    /\ pc[r] = "connect"
    /\ pc' = [pc EXCEPT ![r] = "query"]
    /\ connections' = connections \cup {r}
    /\ attempts' = [attempts EXCEPT ![r].connect = @ + 1]
    /\ UNCHANGED <<growth_logs, lot, df, exc, response, failure>>

\* engine.connect() cannot establish the session: SQLAlchemy raises.
ConnectRaise(r, msg) ==
    /\ pc[r] = "connect"
    /\ Raise(r, "connect", "SQLAlchemyError", msg, msg)
    /\ attempts' = [attempts EXCEPT ![r].connect = @ + 1]
    /\ UNCHANGED <<growth_logs, lot, connections, df, response>>

\* pd.read_sql_query returns the rows; the with block closes the connection.
QueryOk(r) ==
    /\ pc[r] = "query"
    /\ \E rows \in ReadSqlQuery(growth_logs, lot[r]) :
           df' = [df EXCEPT ![r] = rows]
    /\ connections' = Release(connections, r)
    /\ pc' = [pc EXCEPT ![r] = "check"]
    /\ attempts' = [attempts EXCEPT ![r].query = @ + 1]
    /\ UNCHANGED <<growth_logs, lot, exc, response, failure>>

\* Faulty variant: a manual open/close pair, the close skipped by the exception.
QueryRaiseLeak(r, cls, msg) ==
    /\ pc[r] = "query"
    /\ Raise(r, "query", cls, msg, msg)
    /\ attempts' = [attempts EXCEPT ![r].query = @ + 1]
    /\ UNCHANGED <<growth_logs, lot, connections, df, response>>

\* pd.read_sql_query raises (a SQLAlchemyError from the database, or any
\* other exception); the with block closes the connection on the way out.
QueryRaise(r, cls, msg) ==
    /\ pc[r] = "query"
    /\ Raise(r, "query", cls, msg, msg)
    /\ connections' = Release(connections, r)
    /\ attempts' = [attempts EXCEPT ![r].query = @ + 1]
    /\ UNCHANGED <<growth_logs, lot, df, response>>

\* if df.empty: return HTMLResponse(..., status_code=404) (lines 38-39).
EmptyResult(r) ==
    /\ pc[r] = "check"
    /\ IsEmpty(df[r])
    /\ pc' = [pc EXCEPT ![r] = "done"]
    /\ response' = [response EXCEPT ![r] =
           [status |-> 404, body |-> NoDataMessage, detail |-> <<>>, chart |-> <<>>]]
    /\ UNCHANGED <<growth_logs, lot, connections, df, exc, failure, attempts>>

\* Lines 42-43 succeed.
ReshapeOk(r) ==
    /\ pc[r] = "check"
    /\ ~IsEmpty(df[r])
    /\ df' = [df EXCEPT ![r] = Reshaped(df[r])]
    /\ pc' = [pc EXCEPT ![r] = "render"]
    /\ UNCHANGED <<growth_logs, lot, connections, exc, response, failure, attempts>>

\* Lines 42-43 raise (a column pandas cannot divide or parse).
ReshapeRaise(r, msg) ==
    /\ pc[r] = "check"
    /\ ~IsEmpty(df[r])
    /\ Raise(r, "reshape", "Exception", msg, msg)
    /\ UNCHANGED <<growth_logs, lot, connections, df, response, attempts>>

\* Lines 45-80: px.line, update_layout, update_traces, to_html; answer 200.
RenderOk(r) ==
    /\ pc[r] = "render"
    /\ pc' = [pc EXCEPT ![r] = "done"]
    /\ response' = [response EXCEPT ![r] =
           [status |-> 200, body |-> ChartFragment, detail |-> <<>>, chart |-> Line(df[r])]]
    /\ UNCHANGED <<growth_logs, lot, connections, df, exc, failure, attempts>>

\* Lines 45-80 raise.
RenderRaise(r, msg) ==
    /\ pc[r] = "render"
    /\ Raise(r, "render", "Exception", msg, msg)
    /\ UNCHANGED <<growth_logs, lot, connections, df, response, attempts>>

\* Faulty variant: the except clause connects again before giving up.
HandleRetry(r) ==
    /\ pc[r] = "raised"
    /\ pc' = [pc EXCEPT ![r] = IF attempts[r].connect < 2 THEN "connect" ELSE "done"]
    /\ response' = [response EXCEPT ![r] =
           IF attempts[r].connect < 2 THEN NoResponse
           ELSE [status |-> 500, body |-> "", detail |-> DetailFor(exc[r]), chart |-> <<>>]]
    /\ UNCHANGED <<growth_logs, lot, connections, df, exc, failure, attempts>>

\* Faulty variant: the except clause swallows the error as "no data".
HandleSwallow(r) ==
    /\ pc[r] = "raised"
    /\ pc' = [pc EXCEPT ![r] = "done"]
    /\ response' = [response EXCEPT ![r] =
           [status |-> 404, body |-> NoDataMessage, detail |-> <<>>, chart |-> <<>>]]
    /\ UNCHANGED <<growth_logs, lot, connections, df, exc, failure, attempts>>

\* The except clauses, lines 82-85: raise HTTPException(status_code=500, ...).
Handle(r) ==
    /\ pc[r] = "raised"
    /\ pc' = [pc EXCEPT ![r] = "done"]
    /\ response' = [response EXCEPT ![r] =
           [status |-> 500, body |-> "", detail |-> DetailFor(exc[r]), chart |-> <<>>]]
    /\ UNCHANGED <<growth_logs, lot, connections, df, exc, failure, attempts>>

\* The response is sent; the locals of the call are gone.
Respond(r) ==
    /\ pc[r] = "done"
    /\ pc' = [pc EXCEPT ![r] = "idle"]
    /\ lot' = [lot EXCEPT ![r] = 0]
    /\ df' = [df EXCEPT ![r] = <<>>]
    /\ exc' = [exc EXCEPT ![r] = NoExc]
    /\ response' = [response EXCEPT ![r] = NoResponse]
    /\ failure' = [failure EXCEPT ![r] = NoFailure]
    /\ attempts' = [attempts EXCEPT ![r] = NoAttempts]
    /\ UNCHANGED <<growth_logs, connections>>

Step(r) ==
    \/ GetDbEngineOk(r)
    \/ \E msg \in ErrorTexts : GetDbEngineRaise(r, msg)
    \/ ConnectOk(r)
    \/ \E msg \in ErrorTexts : ConnectRaise(r, msg)
    \/ QueryOk(r)
    \/ \E cls \in {"SQLAlchemyError", "Exception"}, msg \in ErrorTexts : QueryRaise(r, cls, msg)
    \/ EmptyResult(r)
    \/ ReshapeOk(r)
    \/ \E msg \in ErrorTexts : ReshapeRaise(r, msg)
    \/ RenderOk(r)
    \/ \E msg \in ErrorTexts : RenderRaise(r, msg)
    \/ Handle(r)
    \/ Respond(r)

\* Requests overlap freely (several workers, or a threaded transport).
Next ==
    \/ \E r \in Requests, lot_id \in Lots : Receive(r, lot_id)
    \/ \E r \in Requests : Step(r)

\* One handler runs to its response before the next one starts.
NextSerial ==
    \/ \E r \in Requests, lot_id \in Lots : ReceiveSerial(r, lot_id)
    \/ \E r \in Requests : Step(r)

Spec == Init /\ [][Next]_vars

SpecSerial == InitSerial /\ [][NextSerial]_vars

\* ------------------------------------------------------------- properties
\* The rows of growth_logs that belong to one lot, read off the table itself.
RowsOfLot(lot_id) == {i \in DOMAIN growth_logs : growth_logs[i].lot_id = lot_id}

\* The text `msg` is the tail of the text `detail`.
Carries(detail, msg) ==
    /\ Len(msg) <= Len(detail)
    /\ SubSeq(detail, Len(detail) - Len(msg) + 1, Len(detail)) = msg

Range(seq) == {seq[i] : i \in DOMAIN seq}

Answered(r) == pc[r] = "done"

\* C1: a request that has ended (200, 404 or 500) or whose query has failed
\* holds no connection; the connection it acquired was released on the way.
C1_ReleasedOnEveryExit ==
    \A r \in Requests :
        (Answered(r) \/ pc[r] = "idle" \/ failure[r].at = "query") => r \notin connections

C1_Witness ==
    \E r, q \in Requests :
        /\ Answered(r) /\ failure[r].at = "query" /\ attempts[r].connect = 1
        /\ response[r].status = 500
        /\ Answered(q) /\ response[q].status \in {200, 404} /\ attempts[q].connect = 1

\* C2: a request whose database session could not be established (engine
\* construction or engine.connect() failed) answers 500 with a detail that
\* names a database-connection failure, and no chart or no-data body.
C2_ConnectionFailureNamed ==
    \A r \in Requests :
        (Answered(r) /\ failure[r].at \in {"engine", "connect"}) =>
            /\ response[r].status = 500
            /\ "Database connection failed: " \in Range(response[r].detail)
            /\ response[r].chart = <<>>
            /\ response[r].body = ""

\* C3: when connection and query succeed and the lot has no row, the answer
\* is 404 with the no-data message and no chart; a 200 is only ever given
\* for a lot that has rows.
C3_EmptyResultIsNotFound ==
    \A r \in Requests :
        /\ (Answered(r) /\ failure[r].at = "none" /\ RowsOfLot(lot[r]) = {}) =>
               /\ response[r].status = 404
               /\ response[r].body = NoDataMessage
               /\ response[r].chart = <<>>
        /\ response[r].status = 200 => RowsOfLot(lot[r]) # {}

C3_Witness ==
    \E r \in Requests :
        /\ Answered(r) /\ response[r].status = 404
        /\ RowsOfLot(lot[r]) = {}
        /\ Len(growth_logs) > 0

\* C4: a chart has one point per stored row of the lot, the i-th point is
\* the i-th queried row, and its height is that row's height_mm / 10.
C4_HeightsAreTenths ==
    \A r \in Requests :
        (Answered(r) /\ response[r].status = 200) =>
            LET chart == response[r].chart IN
            /\ Len(chart) = Cardinality(RowsOfLot(lot[r]))
            /\ Len(chart) = Len(df[r])
            /\ \A i \in DOMAIN chart :
                   /\ chart[i].y.tenths \in 0..9
                   /\ 10 * chart[i].y.whole + chart[i].y.tenths = df[r][i].height_mm
                   /\ chart[i].x = df[r][i].log_date

C4_Witness ==
    \E r \in Requests :
        /\ Answered(r) /\ response[r].status = 200
        /\ Len(response[r].chart) = 2
        /\ response[r].chart[1].y = [whole |-> 30, tenths |-> 5]
        /\ response[r].chart[2].y = [whole |-> 10, tenths |-> 0]

\* C5: with requests overlapping in any way, the points of a chart for lot A
\* are exactly the rows of lot A: each point comes from its own row of A.
C5_NoCrossContamination ==
    \A r \in Requests :
        (Answered(r) /\ response[r].status = 200) =>
            LET chart == response[r].chart IN
            \E f \in [DOMAIN chart -> RowsOfLot(lot[r])] :
                /\ \A i, j \in DOMAIN chart : i # j => f[i] # f[j]
                /\ \A i \in DOMAIN chart :
                       /\ chart[i].x = ToDatetime(growth_logs[f[i]].log_date)
                       /\ chart[i].y = MmToCm(growth_logs[f[i]].height_mm)

C5_Witness ==
    \E r, q \in Requests :
        /\ lot[r] = 7 /\ lot[q] = 8
        /\ Answered(r) /\ response[r].status = 200 /\ Len(response[r].chart) = 2
        /\ Answered(q) /\ response[q].status = 200 /\ Len(response[q].chart) = 1

C7_Original ==
    \A r \in Requests :
        (Answered(r) /\ failure[r].at # "none") =>
            /\ response[r].status = 500
            /\ Len(response[r].detail) > 0
            /\ Carries(response[r].detail, failure[r].msg)
            /\ response[r].body = ""
            /\ response[r].chart = <<>>

\* C7, amended: every failed request answers 500 with a detail that carries
\* the underlying message, non-empty whenever that message is non-empty or
\* the failure is a SQLAlchemyError or an engine-construction failure; it
\* never answers a 200/404 body or a chart.
C7_NoErrorSuppressed ==
    \A r \in Requests :
        (Answered(r) /\ failure[r].at # "none") =>
            /\ response[r].status = 500
            /\ Carries(response[r].detail, failure[r].msg)
            /\ (\/ Len(failure[r].msg) > 0
                \/ exc[r].cls = "SQLAlchemyError"
                \/ failure[r].at = "engine") => Len(response[r].detail) > 0
            /\ response[r].body = ""
            /\ response[r].chart = <<>>

C7_Witness ==
    \E r \in Requests :
        /\ Answered(r) /\ failure[r].at = "render"
        /\ Len(df[r]) > 0
        /\ response[r].status = 500
        /\ response[r].detail = <<"underlying message">>

\* C8: the points of a chart are in ascending (non-strict) date order,
\* whatever the insertion order of the rows.
C8_AscendingByLogDate ==
    \A r \in Requests :
        response[r].status = 200 =>
            \A i, j \in DOMAIN response[r].chart :
                i < j => response[r].chart[i].x <= response[r].chart[j].x

C8_Witness ==
    \E r \in Requests :
        /\ Len(growth_logs) >= 2
        /\ growth_logs[1].lot_id = lot[r] /\ growth_logs[2].lot_id = lot[r]
        /\ growth_logs[1].log_date > growth_logs[2].log_date
        /\ Answered(r) /\ response[r].status = 200
        /\ response[r].chart[1].x < response[r].chart[2].x

\* C9: a request calls engine.connect() at most once and read_sql_query at
\* most once, and from a raised exception its next step is the 500 answer,
\* with no further connection or query attempt.
C9_NoRetry ==
    /\ [](\A r \in Requests : attempts[r].connect <= 1 /\ attempts[r].query <= 1)
    /\ [][\A r \in Requests :
            (pc[r] = "raised" /\ pc'[r] # "raised") =>
                /\ pc'[r] = "done"
                /\ response'[r].status = 500
                /\ attempts'[r] = attempts[r]
                /\ r \notin connections']_vars

C9_Witness ==
    \E r \in Requests :
        /\ Answered(r) /\ failure[r].at = "connect"
        /\ attempts[r] = [connect |-> 1, query |-> 0]
        /\ response[r].status = 500

\* C10: a connection is held only by a request in its query step, so the
\* emptiness check, the conversion and the rendering (and their failures)
\* run with no connection held, and the connections in use never outnumber
\* the requests in their query step.
C10_HeldOnlyWhileQuerying ==
    /\ \A r \in connections : pc[r] = "query"
    /\ \A r \in Requests : pc[r] \in {"check", "render"} => r \notin connections
    /\ \A r \in Requests : failure[r].at \in {"reshape", "render"} => r \notin connections
    /\ Cardinality(connections) <= Cardinality({r \in Requests : pc[r] = "query"})

C10_Witness ==
    \E r, q \in Requests :
        /\ pc[r] = "raised" /\ failure[r].at = "render" /\ attempts[r].connect = 1
        /\ q \in connections /\ pc[q] = "query"

====
